---------------------------- MODULE Spec2Model ----------------------------
(***************************************************************************)
(* The extract_io_flows pass of passes/proganalysis/extract_io_flows.cc:   *)
(* ExtractIOFlowsPass::execute classifies every selected module and, for   *)
(* a combinational one, constructs an ExtractIOFlowsWorker, whose          *)
(* constructor builds the predecessor map sig_inputs, writes the JSON      *)
(* report and answers one get_dependencies query per output-port bit.      *)
(*                                                                         *)
(* A std::string is a sequence of one-character strings.  A SigBit is a    *)
(* record [wire, offset]: wire is the name of the wire it points to, or    *)
(* NULL for a constant bit, whose offset field then holds the constant.    *)
(***************************************************************************)
EXTENDS Integers, Sequences, FiniteSets, TLC

(***************************************************************************)
(* Bounds of the model.                                                    *)
(***************************************************************************)
\* connections of a generated module
MaxConns == 3
\* selected modules of a design
MaxModules == 2
\* frames the call stack holds before it overflows
MaxStack == 4

(***************************************************************************)
(* std::string                                                             *)
(***************************************************************************)
\* the characters in use, in ascending order of their char value
ASCII == << "$", "0", "1", "2", "3", "4", "5", "6", "7", "8", "9",
            "A", "B", "C", "D", "E", "F", "H", "L", "M", "N", "O", "P", "R",
            "S", "T", "U", "X", "[", "\\", "]", "_",
            "a", "b", "c", "d", "e", "f", "g", "h", "i", "l", "m", "n", "o", "p",
            "q", "r", "s", "t", "u", "v", "w", "x", "y", "z" >>

Ord(c) == CHOOSE i \in 1..Len(ASCII) : ASCII[i] = c

\* std::string operator< : lexicographic on char values
RECURSIVE StrLess(_, _)
StrLess(s, t) ==
    IF t = <<>> THEN FALSE
    ELSE IF s = <<>> THEN TRUE
    ELSE IF Ord(Head(s)) # Ord(Head(t)) THEN Ord(Head(s)) < Ord(Head(t))
    ELSE StrLess(Tail(s), Tail(t))

npos == -1

\* a find that matches at position 0 only
find_from_start_only(s, t, i) ==
    IF Len(t) <= Len(s) /\ SubSeq(s, 1, Len(t)) = t THEN 0 ELSE npos

\* std::string::find(t) from position i (0-based): first match or npos
RECURSIVE find_from(_, _, _)
find_from(s, t, i) ==
    IF i + Len(t) > Len(s) THEN npos
    ELSE IF SubSeq(s, i + 1, i + Len(t)) = t THEN i
    ELSE find_from(s, t, i + 1)

find(s, t) == find_from(s, t, 0)

Digits == << "0", "1", "2", "3", "4", "5", "6", "7", "8", "9" >>

\* std::to_string(int) for a non-negative offset
RECURSIVE to_string(_)
to_string(n) ==
    IF n < 10 THEN << Digits[n + 1] >>
    ELSE to_string(n \div 10) \o << Digits[(n % 10) + 1] >>

(***************************************************************************)
(* RTLIL values                                                            *)
(***************************************************************************)
NULL == <<>>

SigBit(w, o) == [wire |-> w, offset |-> o]
S0 == [wire |-> NULL, offset |-> 0]

is_wire(sig) == sig.wire # NULL

Wire(width, inp, outp) ==
    [width |-> width, port_input |-> inp, port_output |-> outp]

Cell(type, conns) == [type |-> type, connections |-> conns]

\* pin names of a cell
pY == "\\Y"
pA == "\\A"
pB == "\\B"
pS == "\\S"
pQ == "\\Q"

\* cell type names
T_AND == << "$", "_", "A", "N", "D", "_" >>
T_OR == << "$", "_", "O", "R", "_" >>
T_XOR == << "$", "_", "X", "O", "R", "_" >>
T_NOT == << "$", "_", "N", "O", "T", "_" >>
T_MUX == << "$", "_", "M", "U", "X", "_" >>
T_SCOPEINFO == << "$", "s", "c", "o", "p", "e", "i", "n", "f", "o" >>
T_DFF == << "D", "F", "F" >>
T_DLATCH == << "$", "_", "D", "L", "A", "T", "C", "H", "_", "P", "_" >>
T_SR == << "$", "_", "S", "R", "_", "N", "N", "_" >>
T_MEM == << "$", "m", "e", "m" >>
T_BUFFER == << "\\", "B", "U", "F", "F", "E", "R" >>
T_dff == << "$", "d", "f", "f" >>
T_ADD == << "$", "a", "d", "d" >>
T_EMPTY == <<>>

SEQ_ELEMENTS == << << "F", "F" >>, << "D", "L", "A", "T", "C", "H" >>,
                   << "D", "L", "E" >>, << "S", "R" >>, << "m", "e", "m" >> >>

\* wire and module names
nA == << "\\", "a" >>
nB == << "\\", "b" >>
nS == << "\\", "s" >>
nX == << "\\", "x" >>
nY == << "\\", "y" >>
nZ == << "\\", "z" >>
nW == << "\\", "w" >>

Name(c) == << "\\", c >>


Module(name, ports, wires, conns, cells) ==
    [name |-> name, ports |-> ports, wires |-> wires,
     connections |-> conns, cells |-> cells]

In1 == Wire(1, TRUE, FALSE)
Out1 == Wire(1, FALSE, TRUE)
Int1 == Wire(1, FALSE, FALSE)

a0 == SigBit(nA, 0)
b0 == SigBit(nB, 0)
s0 == SigBit(nS, 0)
x0 == SigBit(nX, 0)
y0 == SigBit(nY, 0)
z0 == SigBit(nZ, 0)
w0 == SigBit(nW, 0)

Gate2(type, a, b, y) ==
    Cell(type, (pA :> << a >>) @@ (pB :> << b >>) @@ (pY :> << y >>))
Gate1(type, a, y) == Cell(type, (pA :> << a >>) @@ (pY :> << y >>))

(***************************************************************************)
(* The modules a design is made of.                                        *)
(***************************************************************************)
\* y = AND(a, b)
M_and ==
    Module(Name("a"), << nA, nB, nY >>,
           (nA :> In1) @@ (nB :> In1) @@ (nY :> Out1),
           << >>, << Gate2(T_AND, a0, b0, y0) >>)

\* x = AND(a, b), y = OR(a, x)
M_reconv ==
    Module(Name("r"), << nA, nB, nY >>,
           (nA :> In1) @@ (nB :> In1) @@ (nX :> Int1) @@ (nY :> Out1),
           << >>, << Gate2(T_OR, a0, x0, y0), Gate2(T_AND, a0, b0, x0) >>)

\* x = NOT(a), y = NOT(x)
M_chain ==
    Module(Name("c"), << nA, nY >>,
           (nA :> In1) @@ (nX :> Int1) @@ (nY :> Out1),
           << >>, << Gate1(T_NOT, a0, x0), Gate1(T_NOT, x0, y0) >>)

\* y = MUX(a, b, s), beside a $scopeinfo cell and a constant driver
M_mux ==
    Module(Name("m"), << nA, nB, nS, nY, nZ >>,
           (nA :> In1) @@ (nB :> In1) @@ (nS :> In1) @@ (nY :> Out1)
               @@ (nZ :> Out1),
           << << << z0 >>, << S0 >> >> >>,
           << Cell(T_SCOPEINFO, (pA :> << a0, b0 >>) @@ (pY :> << y0 >>)),
              Cell(T_MUX, (pA :> << a0 >>) @@ (pB :> << b0 >>)
                              @@ (pS :> << s0 >>) @@ (pY :> << y0 >>)) >>)

\* x = XOR(a, b) shared by the outputs z and y; z is declared before y
M_shared ==
    Module(Name("s"), << nA, nB, nZ, nY >>,
           (nA :> In1) @@ (nB :> In1) @@ (nX :> Int1) @@ (nZ :> Out1)
               @@ (nY :> Out1),
           << << << z0, y0 >>, << x0, x0 >> >> >>,
           << Gate2(T_XOR, a0, b0, x0) >>)

\* w = NOT(a), x = AND(w, a), y = OR(x, w)
M_deep ==
    Module(Name("v"), << nA, nY >>,
           (nA :> In1) @@ (nW :> Int1) @@ (nX :> Int1) @@ (nY :> Out1),
           << >>,
           << Gate2(T_OR, x0, w0, y0), Gate2(T_AND, w0, a0, x0),
              Gate1(T_NOT, a0, w0) >>)

\* an output port of 11 bits: y[2] = a, y[10] = b
M_wide ==
    Module(Name("w"), << nY, nA, nB >>,
           (nA :> In1) @@ (nB :> In1) @@ (nY :> Wire(11, FALSE, TRUE)),
           << << << SigBit(nY, 2), SigBit(nY, 10) >>, << a0, b0 >> >> >>,
           << >>)

\* y = NOT(x) with x an internal wire nothing drives
M_undriven ==
    Module(Name("u"), << nA, nY >>,
           (nA :> In1) @@ (nX :> Int1) @@ (nY :> Out1),
           << >>, << Gate1(T_NOT, x0, y0) >>)

\* the input port b is driven from the input port a, and drives y
M_indriven ==
    Module(Name("i"), << nA, nB, nY >>,
           (nA :> In1) @@ (nB :> In1) @@ (nY :> Out1),
           << << << b0 >>, << a0 >> >>, << << y0 >>, << b0 >> >> >>, << >>)

\* the port y is both input and output
M_inout ==
    Module(Name("o"), << nA, nY >>,
           (nA :> In1) @@ (nY :> Wire(1, TRUE, TRUE)),
           << << << y0 >>, << a0 >> >> >>, << >>)

\* a combinational loop: x = AND(a, y), y = NOT(x)
M_cycle ==
    Module(Name("q"), << nA, nY >>,
           (nA :> In1) @@ (nX :> Int1) @@ (nY :> Out1),
           << >>, << Gate2(T_AND, a0, y0, x0), Gate1(T_NOT, x0, y0) >>)

\* a flip-flop behind a gate
M_seq ==
    Module(Name("f"), << nA, nB, nY >>,
           (nA :> In1) @@ (nB :> In1) @@ (nX :> Int1) @@ (nY :> Out1),
           << >>,
           << Gate2(T_AND, a0, b0, x0),
              Cell(T_DFF, (pA :> << x0 >>) @@ (pQ :> << y0 >>)),
              Gate1(T_NOT, a0, x0) >>)

\* a latch, a set/reset latch and a memory
M_latch ==
    Module(Name("l"), << nA, nY >>,
           (nA :> In1) @@ (nY :> Out1),
           << >>,
           << Cell(T_DLATCH, (pA :> << a0 >>) @@ (pQ :> << y0 >>)),
              Cell(T_SR, (pA :> << a0 >>)), Cell(T_MEM, (pA :> << a0 >>)) >>)

\* a user cell whose type name holds "FF"
M_buffer ==
    Module(Name("b"), << nA, nY >>,
           (nA :> In1) @@ (nY :> Out1),
           << >>, << Cell(T_BUFFER, (pA :> << a0 >>) @@ (pY :> << y0 >>)) >>)

\* a connection of a 1-bit destination to a 2-bit source
M_width ==
    Module(Name("x"), << nA, nB, nY >>,
           (nA :> In1) @@ (nB :> In1) @@ (nY :> Out1),
           << << << y0 >>, << a0, b0 >> >> >>, << >>)

\* a gate pin bound to two bits, after a well-formed gate
M_pin2 ==
    Module(Name("p"), << nA, nB, nY >>,
           (nA :> In1) @@ (nB :> In1) @@ (nX :> Int1) @@ (nY :> Out1),
           << << << y0 >>, << x0 >> >> >>,
           << Gate1(T_NOT, a0, x0),
              Cell(T_AND, (pA :> << a0, b0 >>) @@ (pB :> << b0 >>)
                              @@ (pY :> << y0 >>)) >>)

\* cell types that are neither gates nor $scopeinfo: "$dff", "$add", ""
M_dff ==
    Module(Name("d"), << nA, nY >>,
           (nA :> In1) @@ (nY :> Out1),
           << >>, << Cell(T_dff, (pA :> << a0 >>) @@ (pQ :> << y0 >>)) >>)

M_add ==
    Module(Name("t"), << nA, nB, nY >>,
           (nA :> In1) @@ (nB :> In1) @@ (nY :> Out1),
           << >>, << Gate2(T_ADD, a0, b0, y0) >>)

M_notype ==
    Module(Name("n"), << nA, nY >>,
           (nA :> In1) @@ (nY :> Out1),
           << >>, << Gate1(T_EMPTY, a0, y0) >>)

\* a gate with a pin that is none of Y, A, B, S
M_badpin ==
    Module(Name("g"), << nA, nY >>,
           (nA :> In1) @@ (nY :> Out1),
           << >>, << Cell(T_NOT, (pQ :> << a0 >>) @@ (pY :> << y0 >>)) >>)

\* no port, no connection, no cell
M_empty == Module(Name("e"), << >>, << >>, << >>, << >>)

FixedModules ==
    { M_and, M_reconv, M_chain, M_mux, M_shared, M_deep, M_wide, M_undriven,
      M_indriven, M_inout, M_cycle, M_seq, M_latch, M_buffer, M_width,
      M_pin2, M_dff, M_add, M_notype, M_badpin, M_empty }

(***************************************************************************)
(* Generated modules: the inputs a and b, the internal wire x and the      *)
(* output y, one bit each, with any choice of at most MaxConns of the      *)
(* connections below (an input port and the output port may both drive    *)
(* and be driven).                                                         *)
(***************************************************************************)
GenDests == << a0, x0, y0 >>
GenSrcs == << a0, b0, x0, y0 >>

CandConns ==
    [ k \in 1..(Len(GenDests) * Len(GenSrcs)) |->
        << << GenDests[((k - 1) \div Len(GenSrcs)) + 1] >>,
           << GenSrcs[((k - 1) % Len(GenSrcs)) + 1] >> >> ]

\* the connections of CandConns whose index is in S, in index order
RECURSIVE PickConns(_, _)
PickConns(S, k) ==
    IF k > Len(CandConns) THEN << >>
    ELSE (IF k \in S THEN << CandConns[k] >> ELSE << >>)
             \o PickConns(S, k + 1)

GenModule(S) ==
    Module(Name("h"), << nA, nB, nY >>,
           (nA :> In1) @@ (nB :> In1) @@ (nX :> Int1) @@ (nY :> Out1),
           PickConns(S, 1), << >>)

GenModules ==
    { GenModule(S) : S \in { T \in SUBSET (1..Len(CandConns)) :
                                 Cardinality(T) <= MaxConns } }

\* the modules that designs of several modules are made of
BatchModules ==
    { M_and, M_reconv, M_chain, M_shared, M_seq, M_latch, M_width, M_cycle }

\* the sequences of n modules of distinct names
RECURSIVE DesignsOfLen(_)
DesignsOfLen(n) ==
    IF n = 0 THEN { << >> }
    ELSE { Append(d, m) : d \in DesignsOfLen(n - 1), m \in BatchModules }

Distinct(d) == \A i, j \in 1..Len(d) : i # j => d[i].name # d[j].name

\* design->selected_modules(): one module, or several in any order
Designs ==
    { << m >> : m \in GenModules \cup FixedModules }
        \cup { d \in UNION { DesignsOfLen(n) : n \in 2..MaxModules } :
                 Distinct(d) }

(***************************************************************************)
(* hashlib dict and std::map.  A dict is the function from its keys to     *)
(* their values; a reference to the value of a key is taken to stay valid  *)
(* while operator[] adds other keys (kernel/hashlib.h decides that, and is *)
(* not among the sources modelled here).                                   *)
(***************************************************************************)
EmptyDict == [ k \in {} |-> {} ]

\* what dict::operator[] yields: the entry, or a default-constructed one
dict_at(d, k) == IF k \in DOMAIN d THEN d[k] ELSE {}

\* the dict after operator[] has been applied to k
dict_touch(d, k) == [ j \in DOMAIN d \cup {k} |-> dict_at(d, j) ]

dict_set(d, k, v) == [ j \in DOMAIN d \cup {k} |-> IF j = k THEN v ELSE d[j] ]

\* a map that keeps its entries in insertion order
map_push_back(m, k, v) == Append(m, [key |-> k, val |-> v])

\* std::map<std::string, Json>::operator[](k) = v on the key-ordered entries
RECURSIVE map_set(_, _, _)
map_set(m, k, v) ==
    IF m = << >> THEN << [key |-> k, val |-> v] >>
    ELSE IF Head(m).key = k THEN << [key |-> k, val |-> v] >> \o Tail(m)
    ELSE IF StrLess(k, Head(m).key) THEN << [key |-> k, val |-> v] >> \o m
    ELSE << Head(m) >> \o map_set(Tail(m), k, v)

(***************************************************************************)
(* ExtractIOFlowsWorker: pure parts                                        *)
(***************************************************************************)
\* the edge recorded the wrong way round
add_sigbit_connection_swapped(si, src, dest) ==
    dict_set(si, src, dict_at(si, src) \cup {dest})

add_sigbit_connection(si, src, dest) ==
    dict_set(si, dest, dict_at(si, dest) \cup {src})

\* the bit loop of one connection, from position i (1-based) on
RECURSIVE add_connection(_, _, _, _)
add_connection(si, dest, src, i) ==
    IF i > Len(dest) THEN si
    ELSE add_connection(add_sigbit_connection(si, src[i], dest[i]),
                        dest, src, i + 1)

IsGate(type) ==
    \/ type = T_XOR
    \/ type = T_AND
    \/ type = T_OR
    \/ type = T_NOT
    \/ type = T_MUX

\* the cell loop without the assert on the cell type
cell_asserts_no_type(cell) ==
    \A pin \in DOMAIN cell.connections :
        /\ Len(cell.connections[pin]) = 1
        /\ pin = pY \/ pin = pA \/ pin = pB \/ pin = pS

\* the log_asserts of the cell loop all pass
cell_asserts(cell) ==
    /\ IsGate(cell.type)
    /\ \A pin \in DOMAIN cell.connections :
          /\ Len(cell.connections[pin]) = 1
          /\ pin = pY \/ pin = pA \/ pin = pB \/ pin = pS

\* the pins of a cell in the order its connection dict yields them
RECURSIVE PinSeq(_)
PinSeq(S) ==
    IF S = {} THEN << >>
    ELSE LET p == CHOOSE q \in S : TRUE IN << p >> \o PinSeq(S \ {p})

\* SigSpec::append over the pins that are (out = TRUE) or are not \Y
RECURSIVE collect_pins(_, _, _)
collect_pins(cell, pins, out) ==
    IF pins = << >> THEN << >>
    ELSE (IF (Head(pins) = pY) = out THEN cell.connections[Head(pins)]
          ELSE << >>) \o collect_pins(cell, Tail(pins), out)

cell_outputs(cell) == collect_pins(cell, PinSeq(DOMAIN cell.connections), TRUE)
cell_inputs(cell) == collect_pins(cell, PinSeq(DOMAIN cell.connections), FALSE)

\* the loops over outputs[i] and inputs[j] of one cell
RECURSIVE add_cell_edges(_, _, _, _, _)
add_cell_edges(si, outputs, inputs, i, j) ==
    IF i > Len(outputs) THEN si
    ELSE IF j > Len(inputs) THEN add_cell_edges(si, outputs, inputs, i + 1, 1)
    ELSE add_cell_edges(add_sigbit_connection(si, inputs[j], outputs[i]),
                        outputs, inputs, i, j + 1)

\* the bits SigBit(wire, offset) for offset = from .. width - 1
RECURSIVE wire_bits(_, _, _)
wire_bits(name, width, from) ==
    IF from >= width THEN << >>
    ELSE << SigBit(name, from) >> \o wire_bits(name, width, from + 1)

\* the loop over module->ports that keeps the wires with the given flag
RECURSIVE port_bits(_, _, _)
port_bits(m, ports, out) ==
    IF ports = << >> THEN << >>
    ELSE LET wire == m.wires[Head(ports)]
         IN  (IF (IF out THEN wire.port_output ELSE wire.port_input)
              THEN wire_bits(Head(ports), wire.width, 0)
              ELSE << >>) \o port_bits(m, Tail(ports), out)

\* Json::object({{"name", ...}, {"offset", ...}, {"width", ...}})
json_bit(m, bit) ==
    [name |-> bit.wire, offset |-> bit.offset, width |-> m.wires[bit.wire].width]

get_json_inputs_list(m) ==
    LET bits == port_bits(m, m.ports, FALSE)
    IN  [ i \in 1..Len(bits) |-> json_bit(m, bits[i]) ]

get_json_outputs_list(m) ==
    LET bits == port_bits(m, m.ports, TRUE)
    IN  [ i \in 1..Len(bits) |-> json_bit(m, bits[i]) ]

\* the output-port bits in the order get_json_dependencies_dict queries them
output_bits(m) == port_bits(m, m.ports, TRUE)

\* wire->name.str() + "[" + std::to_string(offset) + "]"
dep_key(bit) == bit.wire \o << "[" >> \o to_string(bit.offset) \o << "]" >>

\* dep_names: one object per member of the set, in the set's own order
dep_names(m, set) == { json_bit(m, dep) : dep \in set }

(***************************************************************************)
(* ExtractIOFlowsPass: pure parts                                          *)
(***************************************************************************)
\* the loop over SEQ_ELEMENTS, from element i on
RECURSIVE is_sequential_from(_, _)
is_sequential_from(cell, i) ==
    IF i > Len(SEQ_ELEMENTS) THEN 0
    ELSE IF find(cell.type, SEQ_ELEMENTS[i]) # npos THEN 1
    ELSE is_sequential_from(cell, i + 1)

is_sequential(cell) == is_sequential_from(cell, 1)


(***************************************************************************)
(* The state of one run of the pass.                                       *)
(***************************************************************************)
VARIABLES
    design,      \* design->selected_modules()
    mi,          \* execute: index of the module being processed
    pc,          \* execute: where the run is
    ci,          \* execute: index of the cell the classifier looks at
    is_seq,      \* execute: is_seq
    ki,          \* worker constructor: index of the connection to process
    kj,          \* worker constructor: index of the cell to process
    sig_inputs,  \* worker: predecessor map
    sig_deps,    \* worker: dependency cache
    stack,       \* the get_dependencies calls in progress, outermost first
    qi,          \* get_json_dependencies_dict: index of the output bit
    deps,        \* get_json_dependencies_dict: the std::map deps
    json         \* what PrettyJson was told to write, one record per object

vars == << design, mi, pc, ci, is_seq, ki, kj, sig_inputs, sig_deps, stack,
           qi, deps, json >>

module == design[mi]

Init ==
    /\ design \in Designs
    /\ mi = 1
    /\ pc = "classify"
    /\ ci = 1
    /\ is_seq = 0
    /\ ki = 1
    /\ kj = 1
    /\ sig_inputs = EmptyDict
    /\ sig_deps = EmptyDict
    /\ stack = << >>
    /\ qi = 1
    /\ deps = << >>
    /\ json = << >>

worker_vars == << ki, kj, sig_inputs, sig_deps, stack, qi, deps >>

\* the loop over design->selected_modules() moves on
next_module ==
    /\ mi' = mi + 1
    /\ ci' = 1
    /\ is_seq' = 0
    /\ pc' = IF mi = Len(design) THEN "done" ELSE "classify"
    /\ UNCHANGED design

(***************************************************************************)
(* ExtractIOFlowsPass::execute                                             *)
(***************************************************************************)
\* one turn of the loop over module->cells(), which breaks on a match
ClassifyCell ==
    /\ pc = "classify"
    /\ is_seq = 0
    /\ ci <= Len(module.cells)
    /\ IF is_sequential(module.cells[ci]) # 0
       THEN is_seq' = 1 /\ ci' = ci
       ELSE is_seq' = 0 /\ ci' = ci + 1
    /\ UNCHANGED << design, mi, pc, json >>
    /\ UNCHANGED worker_vars

\* a sequential branch that writes the port lists of the module
SkipSequential_reports ==
    /\ pc = "classify"
    /\ is_seq # 0
    /\ json' = Append(json,
                 [closed |-> TRUE,
                  entries |-> << << "module", module.name >>,
                                 << "inputs", get_json_inputs_list(module) >>,
                                 << "outputs", get_json_outputs_list(module) >>
                              >>])
    /\ next_module
    /\ UNCHANGED worker_vars

\* if (is_seq): two log lines and nothing else
SkipSequential ==
    /\ pc = "classify"
    /\ is_seq # 0
    /\ next_module
    /\ UNCHANGED json
    /\ UNCHANGED worker_vars

\* a worker whose maps outlive the module they were built for
StartWorker_shared ==
    /\ pc = "classify"
    /\ is_seq = 0
    /\ ci > Len(module.cells)
    /\ pc' = "construct"
    /\ ki' = 1
    /\ kj' = 1
    /\ UNCHANGED << sig_inputs, sig_deps >>
    /\ UNCHANGED << design, mi, ci, is_seq, stack, qi, deps, json >>

\* else: ExtractIOFlowsWorker worker(design, module), its members empty
StartWorker ==
    /\ pc = "classify"
    /\ is_seq = 0
    /\ ci > Len(module.cells)
    /\ pc' = "construct"
    /\ ki' = 1
    /\ kj' = 1
    /\ sig_inputs' = EmptyDict
    /\ sig_deps' = EmptyDict
    /\ UNCHANGED << design, mi, ci, is_seq, stack, qi, deps, json >>

(***************************************************************************)
(* ExtractIOFlowsWorker::ExtractIOFlowsWorker                              *)
(***************************************************************************)
\* one turn of the loop over module->connections()
ProcessConnection ==
    /\ pc = "construct"
    /\ ki <= Len(module.connections)
    /\ LET dest == module.connections[ki][1]
           src == module.connections[ki][2]
       IN  IF Len(dest) # Len(src)
           THEN /\ pc' = "aborted"
                /\ UNCHANGED << ki, sig_inputs >>
           ELSE /\ sig_inputs' = add_connection(sig_inputs, dest, src, 1)
                /\ ki' = ki + 1
                /\ pc' = pc
    /\ UNCHANGED << design, mi, ci, is_seq, kj, sig_deps, stack, qi, deps,
                    json >>

\* one turn of the loop over module->cells()
ProcessCell ==
    /\ pc = "construct"
    /\ ki > Len(module.connections)
    /\ kj <= Len(module.cells)
    /\ LET cell == module.cells[kj]
       IN  IF cell.type = T_SCOPEINFO
           THEN /\ kj' = kj + 1
                /\ UNCHANGED << pc, sig_inputs >>
           ELSE IF ~cell_asserts(cell)
           THEN /\ pc' = "aborted"
                /\ UNCHANGED << kj, sig_inputs >>
           ELSE /\ sig_inputs' = add_cell_edges(sig_inputs, cell_outputs(cell),
                                                cell_inputs(cell), 1, 1)
                /\ kj' = kj + 1
                /\ pc' = pc
    /\ UNCHANGED << design, mi, ci, is_seq, ki, sig_deps, stack, qi, deps,
                    json >>

\* begin_object and the entries "module", "inputs" and "outputs"
EmitHead ==
    /\ pc = "construct"
    /\ ki > Len(module.connections)
    /\ kj > Len(module.cells)
    /\ json' = Append(json,
                 [closed |-> FALSE,
                  entries |-> << << "module", module.name >>,
                                 << "inputs", get_json_inputs_list(module) >>,
                                 << "outputs", get_json_outputs_list(module) >>
                              >>])
    /\ pc' = "query"
    /\ qi' = 1
    /\ deps' = << >>
    /\ stack' = << >>
    /\ UNCHANGED << design, mi, ci, is_seq, ki, kj, sig_inputs, sig_deps >>

(***************************************************************************)
(* ExtractIOFlowsWorker::get_dependencies                                  *)
(***************************************************************************)
port_input(m, sig) == m.wires[sig.wire].port_input

\* get_dependencies without the primary-input case
returns_at_once_no_input(m, sd, sig) ==
    \/ sig \in DOMAIN sd
    \/ ~is_wire(sig)

\* get_dependencies without the cache lookup
returns_at_once_no_cache(m, sd, sig) ==
    \/ ~is_wire(sig)
    \/ port_input(m, sig)

\* the call returns before the loop over the predecessors
returns_at_once(m, sd, sig) ==
    \/ sig \in DOMAIN sd
    \/ ~is_wire(sig)
    \/ port_input(m, sig)

\* what such a call returns
result_at_once(m, sd, sig) ==
    IF sig \in DOMAIN sd THEN sd[sig]
    ELSE IF ~is_wire(sig) THEN {}
    ELSE {sig}

\* sig_deps after such a call
cache_at_once(m, sd, sig) ==
    IF sig \in DOMAIN sd THEN sd
    ELSE dict_set(sd, sig, result_at_once(m, sd, sig))

\* a call that reaches the loop: its frame, with the predecessors to visit
Frame(sig) == [sig |-> sig, todo |-> dict_at(sig_inputs, sig), deps |-> {}]

Top == stack[Len(stack)]

\* a caller that keeps the last returned set only
deliver_overwrite(frames, set) ==
    [frames EXCEPT ![Len(frames)].deps = set]

\* the caller's frame takes the returned set into its deps
deliver(frames, set) ==
    [frames EXCEPT ![Len(frames)].deps = @ \cup set]

\* a loop that never moves past pred
advance_stuck(frames, pred) == frames

\* the range-for moves past pred
advance(frames, pred) ==
    [frames EXCEPT ![Len(frames)].todo = @ \ {pred}]

\* get_json_dependencies_dict: the query for the next output bit
QueryOutput ==
    /\ pc = "query"
    /\ stack = << >>
    /\ qi <= Len(output_bits(module))
    /\ LET sig == output_bits(module)[qi]
       IN  IF returns_at_once(module, sig_deps, sig)
           THEN /\ sig_deps' = cache_at_once(module, sig_deps, sig)
                /\ deps' = map_set(deps, dep_key(sig),
                             dep_names(module,
                                       result_at_once(module, sig_deps, sig)))
                /\ qi' = qi + 1
                /\ UNCHANGED << stack, sig_inputs >>
           ELSE /\ stack' = << Frame(sig) >>
                /\ sig_inputs' = dict_touch(sig_inputs, sig)
                /\ UNCHANGED << sig_deps, deps, qi >>
    /\ UNCHANGED << design, mi, pc, ci, is_seq, ki, kj, json >>

\* the loop over sig_inputs[sig]: get_dependencies(pred) for the next pred
CallPred ==
    /\ pc = "query"
    /\ stack # << >>
    /\ \E pred \in Top.todo :
          LET rest == advance(stack, pred)
          IN  IF returns_at_once(module, sig_deps, pred)
              THEN /\ sig_deps' = cache_at_once(module, sig_deps, pred)
                   /\ stack' = deliver(rest,
                                 result_at_once(module, sig_deps, pred))
                   /\ UNCHANGED sig_inputs
              ELSE /\ Len(stack) < MaxStack
                   /\ stack' = Append(rest, Frame(pred))
                   /\ sig_inputs' = dict_touch(sig_inputs, pred)
                   /\ UNCHANGED sig_deps
    /\ UNCHANGED << design, mi, pc, ci, is_seq, ki, kj, qi, deps, json >>

\* the recursion runs out of call stack: the process dies
StackOverflow ==
    /\ pc = "query"
    /\ Len(stack) >= MaxStack
    /\ \E pred \in Top.todo : ~returns_at_once(module, sig_deps, pred)
    /\ pc' = "crashed"
    /\ UNCHANGED << design, mi, ci, is_seq, json >>
    /\ UNCHANGED worker_vars

\* the loop is over: return sig_deps[sig] = deps
ReturnFrame ==
    /\ pc = "query"
    /\ stack # << >>
    /\ Top.todo = {}
    /\ sig_deps' = dict_set(sig_deps, Top.sig, Top.deps)
    /\ IF Len(stack) = 1
       THEN /\ stack' = << >>
            /\ deps' = map_set(deps, dep_key(Top.sig),
                               dep_names(module, Top.deps))
            /\ qi' = qi + 1
       ELSE /\ stack' = deliver(SubSeq(stack, 1, Len(stack) - 1), Top.deps)
            /\ UNCHANGED << deps, qi >>
    /\ UNCHANGED << design, mi, pc, ci, is_seq, ki, kj, sig_inputs, json >>

\* the entry "dependencies" and end_object; the worker goes out of scope
EmitDependencies ==
    /\ pc = "query"
    /\ stack = << >>
    /\ qi > Len(output_bits(module))
    /\ json' = [json EXCEPT ![Len(json)] =
                  [closed |-> TRUE,
                   entries |-> Append(@.entries, << "dependencies", deps >>)]]
    /\ next_module
    /\ UNCHANGED worker_vars

Next ==
    \/ ClassifyCell
    \/ SkipSequential
    \/ StartWorker
    \/ ProcessConnection
    \/ ProcessCell
    \/ EmitHead
    \/ QueryOutput
    \/ CallPred
    \/ StackOverflow
    \/ ReturnFrame
    \/ EmitDependencies

Spec == Init /\ [][Next]_vars

\* the pass is one thread that runs until it returns or dies
FairSpec == Spec /\ WF_vars(Next)


(***************************************************************************)
(* Vocabulary of the properties.                                           *)
(***************************************************************************)
Stopped == pc \in {"done", "aborted", "crashed"}

\* the edges a predecessor map records, as pairs << source, destination >>
Edges(si) == UNION { { << p, d >> : p \in si[d] } : d \in DOMAIN si }

NodesOf(E) == { e[1] : e \in E } \cup { e[2] : e \in E }

PredsOf(E, S) == { e[1] : e \in { f \in E : f[2] \in S } }

IsPrimaryInput(m, b) ==
    /\ b.wire \in DOMAIN m.wires
    /\ m.wires[b.wire].port_input

\* the bits from which a path of at most n edges leads into the set S
RECURSIVE Back(_, _, _)
Back(E, S, n) ==
    IF n = 0 THEN S ELSE Back(E, S \cup PredsOf(E, S), n - 1)

Ancestors(E, S) == Back(E, S, Cardinality(NodesOf(E)))

Acyclic(E) == \A b \in NodesOf(E) : b \notin Ancestors(E, PredsOf(E, {b}))

\* as Back, but a path is not continued through a primary input or a constant
RECURSIVE BackStop(_, _, _, _)
BackStop(m, E, S, n) ==
    IF n = 0 THEN S
    ELSE BackStop(m, E,
             S \cup PredsOf(E, { b \in S : is_wire(b) /\ ~IsPrimaryInput(m, b) }),
             n - 1)

\* the primary inputs with a path of predecessor edges to o
InputsReaching(m, E, o) ==
    { b \in Ancestors(E, {o}) : IsPrimaryInput(m, b) }

\* the primary inputs with such a path that meets no other primary input
InputsFacing(m, E, o) ==
    { b \in BackStop(m, E, {o}, Cardinality(NodesOf(E))) : IsPrimaryInput(m, b) }

\* t occurs in s
Contains(s, t) ==
    \E i \in 1..(Len(s) + 1) : \E j \in 0..Len(s) : SubSeq(s, i, j) = t

Markers == { SEQ_ELEMENTS[i] : i \in 1..Len(SEQ_ELEMENTS) }

HasSequentialCell(m) ==
    \E i \in 1..Len(m.cells) : \E t \in Markers : Contains(m.cells[i].type, t)

Gates == { T_AND, T_OR, T_XOR, T_NOT, T_MUX }

InputPins == { pA, pB, pS }

\* the three structural inconsistencies
WidthMismatch(m) ==
    \E i \in 1..Len(m.connections) :
        Len(m.connections[i][1]) # Len(m.connections[i][2])

WidePin(m) ==
    \E i \in 1..Len(m.cells) :
        /\ m.cells[i].type \in Gates
        /\ \E p \in DOMAIN m.cells[i].connections :
              Len(m.cells[i].connections[p]) # 1

UnknownCell(m) ==
    \E i \in 1..Len(m.cells) : m.cells[i].type \notin Gates \cup {T_SCOPEINFO}

Inconsistent(m) == WidthMismatch(m) \/ WidePin(m) \/ UnknownCell(m)

\* the edges the construction phase is to record for module m
ConnectionEdges(m) ==
    UNION { { << m.connections[i][2][k], m.connections[i][1][k] >> :
                k \in 1..Len(m.connections[i][1]) } :
            i \in 1..Len(m.connections) }

GateEdges(c) ==
    IF c.type \notin Gates \/ pY \notin DOMAIN c.connections THEN {}
    ELSE { << c.connections[p][1], c.connections[pY][1] >> :
             p \in InputPins \cap DOMAIN c.connections }

ExpectedEdges(m) ==
    ConnectionEdges(m) \cup UNION { GateEdges(m.cells[i]) : i \in 1..Len(m.cells) }

\* reports
ReportName(r) == r.entries[1][2]

ReportKeys(r) == [ i \in 1..Len(r.entries) |-> r.entries[i][1] ]

HasEntry(r, k) == \E i \in 1..Len(r.entries) : r.entries[i][1] = k

EntryOf(r, k) == r.entries[CHOOSE i \in 1..Len(r.entries) : r.entries[i][1] = k][2]

ReportsOf(m) == { k \in 1..Len(json) : ReportName(json[k]) = m.name }

ModuleNamed(n) == CHOOSE m \in { design[i] : i \in 1..Len(design) } : m.name = n

DepKeys(d) == [ i \in 1..Len(d) |-> d[i].key ]

\* s precedes t in byte-wise lexicographic order
LexLess(s, t) ==
    \E k \in 0..Len(s) :
        /\ k <= Len(t)
        /\ \A i \in 1..k : s[i] = t[i]
        /\ \/ k = Len(s) /\ k < Len(t)
           \/ k < Len(s) /\ k < Len(t) /\ Ord(s[k + 1]) < Ord(t[k + 1])


(***************************************************************************)
(* Claims                                                                  *)
(***************************************************************************)
\* the output bits get_json_dependencies_dict has already queried
Answered == { output_bits(module)[i] : i \in 1..(qi - 1) }

DepsEntry(key) == deps[CHOOSE i \in 1..Len(deps) : deps[i].key = key].val

\* C1 as stated: on an acyclic predecessor graph, the set returned for an
\* output bit o and reported under its key is the set of all primary-input
\* bits from which a path of predecessor edges leads to o.
C1_AllReachingInputs ==
    (pc = "query" /\ Acyclic(Edges(sig_inputs))) =>
        \A o \in Answered :
            /\ sig_deps[o] = InputsReaching(module, Edges(sig_inputs), o)
            /\ DepsEntry(dep_key(o)) = dep_names(module, sig_deps[o])

\* C1 amended: on an acyclic predecessor graph, the set returned for an
\* output bit o and reported under its key is the set of the primary-input
\* bits from which a path of predecessor edges leads to o on which every bit
\* after the first is a wire bit that is not a primary input; the
\* reconvergent case gives {A, B} and the chain gives {A}.
C1_FacingInputs ==
    /\ (pc = "query" /\ Acyclic(Edges(sig_inputs))) =>
          \A o \in Answered :
              /\ o \in DOMAIN sig_deps
              /\ sig_deps[o] = InputsFacing(module, Edges(sig_inputs), o)
              /\ DepsEntry(dep_key(o)) = dep_names(module, sig_deps[o])
    /\ (pc = "query" /\ qi > 1 /\ module = M_reconv) => sig_deps[y0] = {a0, b0}
    /\ (pc = "query" /\ qi > 1 /\ module = M_chain) => sig_deps[y0] = {a0}

\* an output bit fed through reconverging paths has been answered
C1_Witness ==
    /\ pc = "query"
    /\ Acyclic(Edges(sig_inputs))
    /\ \E o \in Answered :
          /\ Cardinality(sig_deps[o]) = 2
          /\ \E x \in PredsOf(Edges(sig_inputs), {o}) :
                /\ ~IsPrimaryInput(module, x)
                /\ PredsOf(Edges(sig_inputs), {x})
                       \cap PredsOf(Edges(sig_inputs), {o}) # {}

\* C2: get_dependencies of a primary-input bit b is {b}, whatever edges the
\* predecessor map records into b and whatever was answered before.
C2_InputIsItself ==
    pc = "query" =>
        /\ \A b \in DOMAIN sig_deps :
              (is_wire(b) /\ IsPrimaryInput(module, b)) => sig_deps[b] = {b}
        /\ \A o \in Answered :
              IsPrimaryInput(module, o) =>
                  /\ sig_deps[o] = {o}
                  /\ DepsEntry(dep_key(o)) = { json_bit(module, o) }

\* a primary-input bit with a recorded predecessor has been resolved
C2_Witness ==
    /\ pc = "query"
    /\ \E b \in DOMAIN sig_deps :
          /\ is_wire(b)
          /\ IsPrimaryInput(module, b)
          /\ PredsOf(Edges(sig_inputs), {b}) # {}
          /\ sig_deps[b] = {b}

\* C9: after the construction phase the predecessor map holds exactly the
\* edges source bit i -> destination bit i of every connection and input-pin
\* bit (A, B, S) -> Y bit of every recognized gate; a $scopeinfo cell adds
\* none.
C9_ExactEdges ==
    pc = "query" => Edges(sig_inputs) = ExpectedEdges(module)

\* the map of a module with a multiplexer, a $scopeinfo cell and a connection
C9_Witness ==
    /\ pc = "query"
    /\ module = M_mux
    /\ { << a0, y0 >>, << b0, y0 >>, << s0, y0 >>, << S0, z0 >> }
           = Edges(sig_inputs)


\* the bit whose call a step of the predecessor loop has just completed
Consumed == Top.todo \ stack'[Len(stack)].todo

\* C3: on an acyclic graph get_dependencies is memoized: a cached set never
\* changes, a call for a cached bit hands the cached set to its caller
\* without entering the predecessor loop, and the loop is entered for a bit
\* only while it is neither cached nor being resolved, so each bit is
\* resolved at most once in a run.
C3_Memoized ==
    [][ (pc = "query" /\ Acyclic(Edges(sig_inputs))) =>
          /\ \A s \in DOMAIN sig_deps :
                s \in DOMAIN sig_deps' /\ sig_deps'[s] = sig_deps[s]
          /\ Len(stack') > Len(stack) =>
                /\ stack'[Len(stack')].sig \notin DOMAIN sig_deps
                /\ \A i \in 1..Len(stack) :
                      stack[i].sig # stack'[Len(stack')].sig
          /\ (stack # << >> /\ Len(stack') >= Len(stack)) =>
                \A s \in Consumed \cap DOMAIN sig_deps :
                    /\ Len(stack') = Len(stack)
                    /\ stack'[Len(stack)].deps = Top.deps \cup sig_deps[s]
                    /\ sig_deps' = sig_deps ]_vars

\* the second output's query has met the gate output that the first output's
\* query resolved, and its frame holds that bit's cached set
C3_Witness ==
    /\ pc = "query"
    /\ Acyclic(Edges(sig_inputs))
    /\ qi = 2
    /\ Len(stack) = 1
    /\ \E s \in dict_at(sig_inputs, Top.sig) \ Top.todo :
          /\ s \in DOMAIN sig_deps
          /\ is_wire(s)
          /\ ~IsPrimaryInput(module, s)
          /\ s \in dict_at(sig_inputs, output_bits(module)[1])
          /\ sig_deps[s] # {}
          /\ Top.deps = sig_deps[s]

\* the modules execute has finished with
Processed == { i \in 1..Len(design) : i < mi }

Classified == pc = "classify" /\ (is_seq # 0 \/ ci > Len(module.cells))

\* C5: a module is classified sequential iff one of its cell type names
\* contains one of the markers FF, DLATCH, DLE, SR, mem (case-sensitive);
\* the empty name is never sequential, "DFF" and a name with "DLATCH" are,
\* the four gate names are not; the worker runs only on a combinational
\* verdict.
C5_Classifier ==
    /\ Classified => (is_seq # 0 <=> HasSequentialCell(module))
    /\ pc \in {"construct", "query", "aborted", "crashed"} =>
          is_seq = 0 /\ ~HasSequentialCell(module)
    /\ \A t \in { T_EMPTY, T_AND, T_OR, T_XOR, T_NOT, T_dff } :
          is_sequential(Cell(t, << >>)) = 0
    /\ \A t \in { T_DFF, T_DLATCH, T_SR, T_MEM, T_BUFFER } :
          is_sequential(Cell(t, << >>)) # 0

\* the classifier has passed a gate and stopped at a flip-flop
C5_Witness ==
    /\ Classified
    /\ is_seq = 1
    /\ ci = 2
    /\ module.cells[1].type = T_AND
    /\ module.cells[2].type = T_DFF

\* C6 as stated: a structurally inconsistent module aborts with no part of a
\* report emitted, and for every module the run leaves either the full
\* report or nothing, never a partial report.
C6_NeverPartial ==
    /\ \A i \in 1..Len(design) :
          Inconsistent(design[i]) => ReportsOf(design[i]) = {}
    /\ Stopped => \A k \in 1..Len(json) : json[k].closed

\* C6 amended: a module with a structural inconsistency (width mismatch,
\* multi-bit gate pin, unrecognized cell type) never gets past construction
\* and no part of a report is emitted for it; an aborted module has no
\* report; and for every module whose predecessor graph is acyclic the run
\* leaves either the full report, with one dependency list per output bit,
\* or nothing.
C6_AbortEmitsNothing ==
    /\ \A i \in 1..Len(design) :
          Inconsistent(design[i]) =>
              /\ ReportsOf(design[i]) = {}
              /\ mi = i => pc \in {"classify", "construct", "aborted"}
    /\ pc = "aborted" => ReportsOf(module) = {}
    /\ \A k \in 1..Len(json) :
          LET m == ModuleNamed(ReportName(json[k]))
          IN  /\ json[k].closed =>
                    /\ HasEntry(json[k], "dependencies")
                    /\ { EntryOf(json[k], "dependencies")[i].key :
                           i \in 1..Len(EntryOf(json[k], "dependencies")) }
                         = { dep_key(output_bits(m)[i]) :
                               i \in 1..Len(output_bits(m)) }
              /\ (Stopped /\ Acyclic(ExpectedEdges(m))) => json[k].closed

\* the constructor has recorded edges of a module and then aborted on it
C6_Witness ==
    /\ pc = "aborted"
    /\ Inconsistent(module)
    /\ Edges(sig_inputs) # {}
    /\ ReportsOf(module) = {}

\* the keys of the dependencies mapping of report r, as emitted
EmittedKeys(r) == DepKeys(EntryOf(r, "dependencies"))

\* the keys in port declaration order, then ascending offset
DeclaredKeys(m) ==
    [ i \in 1..Len(output_bits(m)) |-> dep_key(output_bits(m)[i]) ]

\* C7 as stated: the keys of "dependencies" appear in output-port
\* declaration order and ascending numeric offset, one per output-port bit.
C7_DeclarationOrder ==
    \A k \in 1..Len(json) :
        json[k].closed =>
            EmittedKeys(json[k]) = DeclaredKeys(ModuleNamed(ReportName(json[k])))

\* C7 amended: the keys of "dependencies" appear in ascending byte-wise
\* lexicographic order of the key strings "<name>[<offset>]" (so offset 10
\* before offset 2, and a port before another by name, not by declaration);
\* there is exactly one key per output-port bit.
C7_LexicographicOrder ==
    \A k \in 1..Len(json) :
        json[k].closed =>
            LET keys == EmittedKeys(json[k])
                want == DeclaredKeys(ModuleNamed(ReportName(json[k])))
            IN  /\ \A i \in 1..(Len(keys) - 1) : LexLess(keys[i], keys[i + 1])
                /\ Len(keys) = Len(want)
                /\ { keys[i] : i \in 1..Len(keys) }
                       = { want[i] : i \in 1..Len(want) }
                /\ \A i, j \in 1..Len(want) : i # j => want[i] # want[j]

\* a report lists y[10] before y[2], and another y before z declared first
C7_Witness ==
    \E k \in 1..Len(json) :
        /\ json[k].closed
        /\ LET keys == EmittedKeys(json[k])
           IN  \E i, j \in 1..Len(keys) :
                   /\ i < j
                   /\ keys[i] = dep_key(SigBit(nY, 10))
                   /\ keys[j] = dep_key(SigBit(nY, 2))

\* the query phase of a module is over and its report is written in full
Reported ==
    /\ pc \in {"classify", "done"}
    /\ json # << >>
    /\ json[Len(json)].closed
    /\ ReportName(json[Len(json)]) = design[mi - 1].name

\* a bit is being resolved by two calls at once
ReEntered ==
    \E i, j \in 1..Len(stack) : i < j /\ stack[i].sig = stack[j].sig

\* C8 as stated: for every finite signal graph the queries of a module
\* return and its report is eventually emitted.
C8_AlwaysTerminates == (pc = "query") ~> Reported

\* C8 amended: for every finite acyclic signal graph the queries of a module
\* return and its report is eventually emitted; the call stack is exhausted
\* only by a recursion that has come back to a bit it is still resolving.
C8_AcyclicTerminates ==
    /\ (pc = "query" /\ Acyclic(Edges(sig_inputs))) ~> Reported
    /\ [](pc = "crashed" => ReEntered)

\* the recursion over the reconvergent module is under way, two calls deep
C8_Witness ==
    /\ pc = "query"
    /\ module = M_reconv
    /\ Len(stack) = 2
    /\ stack[2].sig = x0

\* the dependencies mapping of module m, from m alone
DepsAlone(m) ==
    LET bits == output_bits(m)
        F[i \in 0..Len(bits)] ==
            IF i = 0 THEN << >>
            ELSE map_set(F[i - 1], dep_key(bits[i]),
                         dep_names(m, InputsFacing(m, ExpectedEdges(m), bits[i])))
    IN  F[Len(bits)]

\* the report of module m, from m alone
ReportAlone(m) ==
    [closed |-> TRUE,
     entries |-> << << "module", m.name >>,
                    << "inputs", get_json_inputs_list(m) >>,
                    << "outputs", get_json_outputs_list(m) >>,
                    << "dependencies", DepsAlone(m) >> >>]

\* C10: every module's analysis starts from an empty predecessor map and an
\* empty cache and is complete before the next begins, and the report of a
\* module is a function of that module alone, whatever was analyzed before.
C10_Independent ==
    /\ [](pc = "classify" => \A k \in 1..Len(json) : json[k].closed)
    /\ [](\A k \in 1..Len(json) :
              json[k].closed =>
                  json[k] = ReportAlone(ModuleNamed(ReportName(json[k]))))
    /\ [][ (pc = "classify" /\ pc' = "construct") =>
              sig_inputs' = EmptyDict /\ sig_deps' = EmptyDict ]_vars

\* the worker of a second module starts, over the same wire names as the
\* first, after the first has been reported
C10_Witness ==
    /\ pc = "construct"
    /\ mi = 2
    /\ design[1] = M_reconv
    /\ design[2] = M_chain
    /\ json # << >>
    /\ sig_inputs = EmptyDict
    /\ sig_deps = EmptyDict

=============================================================================
